---- MODULE Spec2Model ----
(***************************************************************************)
(* Load-driven CPU hotplug controller (ix_hotplug / auto_hotplug).         *)
(*                                                                         *)
(* The repository holds three variants of the same decision engine:        *)
(*   A  src/arch/arm/kernel/ix_hotplug.c lines 1-377: per-count threshold  *)
(*      arrays, load_multiplier switched by suspend/resume work items      *)
(*      under ix_hotplug_mutex, least-loaded victim.   (specification Spec) *)
(*   B  src/arch/arm/kernel/ix_hotplug.c lines 378-672: scalar disable     *)
(*      threshold, first-online victim.               (specification SpecB) *)
(*   C  src/arch/arm/kernel/auto_hotplug.c: ring-buffer smoothing, the     *)
(*      early-suspend handler cancels the tick.       (specification SpecC) *)
(*                                                                         *)
(* A tick of variant A is two steps, TickDecide (lines 212-251) and        *)
(* TickExit (lines 255-259), because load_multiplier is read once in each  *)
(* without the mutex and a suspend/resume work item may write it between   *)
(* the two reads.  A racy read of the word-sized load_multiplier returns   *)
(* the value before or after the write, which the interleaving covers.     *)
(***************************************************************************)
EXTENDS Integers, Sequences, FiniteSets, TLC

VARIABLES
    online,            \* cpu_online_mask: the set of online CPUs
    online_cpus,       \* static unsigned int online_cpus (variant A)
    online_sample,     \* static unsigned int online_sample
    offline_sample,    \* static unsigned int offline_sample
    load_multiplier,   \* static unsigned int load_multiplier
    sampling_rate,     \* static unsigned int sampling_rate
    pending,           \* number of pending instances of hotplug_decision_work
    running,           \* number of executing instances of hotplug_decision_work_fn
    mutex,             \* holder of ix_hotplug_mutex: "free", "suspend", "resume"
    handled,           \* the last work item that ran to completion
    removed,           \* ix_hotplug_remove has returned
    crashed,           \* the kernel faulted on the freed workqueue
    history,           \* static unsigned int history[SAMPLING_PERIODS] (variant C)
    index,             \* static unsigned int index (variant C)
    susp,              \* early suspend of variant C: "on", "canceling", "off"
    cpuload,           \* DEFINE_PER_CPU(struct cpu_load_data, cpuload)
    ld,                \* what the calls of get_cpu_load read and returned
    tk,                \* what the last tick sampled and did
    obs                \* observers of the tick history

vars == <<online, online_cpus, online_sample, offline_sample, load_multiplier,
          sampling_rate, pending, running, mutex, handled, removed, crashed,
          history, index, susp, cpuload, ld, tk, obs>>

----------------------------------------------------------------------------
(* Variant A: tunables, ix_hotplug.c lines 77-90 *)

available_cpus == 4
enable_all_load == 700
enable_load == [i \in 0..4 |-> CASE i = 1 -> 200 [] i = 2 -> 235 [] i = 3 -> 300 [] OTHER -> 0]
disable_load == [i \in 0..4 |-> CASE i = 2 -> 70 [] i = 3 -> 100 [] i = 4 -> 225 [] OTHER -> 0]
sample_rate == [i \in 0..4 |-> CASE i = 1 -> 100 [] i = 2 -> 125 [] i = 3 -> 150 [] i = 4 -> 150 [] OTHER -> 0]
online_sampling_periods == 3
offline_sampling_periods == 5
\* the floor of "online_cpus > 1", line 216
min_online_units == 1
\* the value ix_hotplug_suspend writes, line 266
load_multiplier_suspended == 2

PossibleCpus == 0..(available_cpus - 1)

(* Inputs of a tick. *)
Loads == {0, 70, 150, 200, 250, 400, 700}
IoWaits == {0, 1}
MaxCpuLoad == 1
CpuLoads == 0..MaxCpuLoad
NoCpuLoad == [c \in PossibleCpus |-> 0]
CpuLoadFns == [PossibleCpus -> CpuLoads]

SetMin(S) == CHOOSE x \in S : \A y \in S : x <= y

\* auto_hotplug.c lines 59-60 and 82: the ring buffer, zero-initialised
SAMPLING_PERIODS == 10
INDEX_MAX_VALUE == SAMPLING_PERIODS - 1
NoHistory == [i \in 0..INDEX_MAX_VALUE |-> 0]

----------------------------------------------------------------------------
(* The external primitives cpu_up / cpu_down; ok is whether the request    *)
(* succeeds (their return value is ignored by every caller).               *)

cpu_up(on, cpu, ok) == IF ok /\ cpu \in PossibleCpus THEN on \cup {cpu} ELSE on

cpu_down(on, cpu, ok) == IF ok /\ cpu \in on THEN on \ {cpu} ELSE on

num_online_cpus(on) == Cardinality(on)

----------------------------------------------------------------------------
(* get_cpu_load, ix_hotplug.c lines 126-150.  The cumulative wall and idle  *)
(* times are u64 microseconds and their differences are cast to unsigned   *)
(* int.  Times are counted here in units of 2^16 microseconds, on which    *)
(* the function computes exactly what it computes on the microseconds:     *)
(* the cast of d * 2^16 to 32 bits is (d % 2^16) * 2^16, the 32-bit        *)
(* product by 100 is ((100 * d) % 2^16) * 2^16, and the quotient of two    *)
(* multiples of 2^16 is the quotient of the multipliers.                   *)

\* 2^32 microseconds, the range of unsigned int, in units of 2^16 microseconds
U32 == 65536

to_u32(x) == x % U32

\* lines 65-70, zero-initialised
NoCpuLoadData == [c \in PossibleCpus |-> [prev_cpu_wall |-> 0, prev_cpu_idle |-> 0]]

\* What get_cpu_idle_time (line 136) has advanced by since the reading before
\* (since boot, for the first reading), and what cpufreq_get_policy (line
\* 134) reports, in kHz.
WallDeltas == {0, 10, 1000, U32 + 10}
IdleDeltas == {0, 4, 11}
Policies == {[cur |-> 1890000, max |-> 1890000], [cur |-> 945000, max |-> 1890000]}
MaxCalls == 3

\* lines 138-149; cur_load * policy.cur stays below 2^32 for these policies
get_cpu_load(pcpu, cur_wall_time, cur_idle_time, policy) ==
    LET wall_time == to_u32(cur_wall_time - pcpu.prev_cpu_wall)
        idle_time == to_u32(cur_idle_time - pcpu.prev_cpu_idle)
        cur_load == to_u32(100 * (wall_time - idle_time)) \div wall_time
    IN  [pcpu |-> [prev_cpu_wall |-> cur_wall_time, prev_cpu_idle |-> cur_idle_time],
         ret |-> IF wall_time = 0 \/ wall_time < idle_time
                 THEN 0
                 ELSE (cur_load * policy.cur) \div policy.max]

(* calls: how often get_cpu_load has run for each CPU, total: for all;     *)
(* of the last call: the CPU, nth (1 for the first call for that CPU), the *)
(* advance of the two counters since the reading before, the policy and    *)
(* the value returned.                                                     *)
NoLoad == [calls |-> [c \in PossibleCpus |-> 0], total |-> 0, cpu |-> 0, nth |-> 0,
           wall_delta |-> 0, idle_delta |-> 0,
           policy |-> [cur |-> 1890000, max |-> 1890000], ret |-> 0]

----------------------------------------------------------------------------
(* Variant A: the work functions *)

\* Mutant of online_single_target: the last possible CPU that is offline
online_single_target_last(on) ==
    LET cand == {c \in PossibleCpus : c # 0 /\ c \notin on}
    IN  IF cand = {} THEN {} ELSE {CHOOSE x \in cand : \A y \in cand : x >= y}

\* hotplug_online_single_work: the first possible CPU, other than 0, that is offline
online_single_target(on) ==
    LET cand == {c \in PossibleCpus : c # 0 /\ c \notin on}
    IN  IF cand = {} THEN {} ELSE {SetMin(cand)}

\* hotplug_online_all_work: every possible CPU that is offline
online_all_targets(on) == {c \in PossibleCpus : c \notin on}

\* Mutant of idlest_cpu: the "if (cpu)" test of line 187 is missing
idlest_cpu_any(on, cl) ==
    IF on = {} THEN -1
    ELSE CHOOSE c \in on : \A d \in on : cl[c] < cl[d] \/ (cl[c] = cl[d] /\ c <= d)

\* Mutant of idlest_cpu: <= for < in line 190, the highest index on ties
idlest_cpu_le(on, cl) ==
    LET cand == {c \in on : c # 0}
    IN  IF cand = {} THEN -1
        ELSE CHOOSE c \in cand : \A d \in cand : cl[c] < cl[d] \/ (cl[c] = cl[d] /\ c >= d)

\* hotplug_offline_work: the online CPU other than 0 with the least load,
\* the lowest index on ties (strict <); -1 when there is none
idlest_cpu(on, cl) ==
    LET cand == {c \in on : c # 0}
    IN  IF cand = {} THEN -1
        ELSE CHOOSE c \in cand : \A d \in cand : cl[c] < cl[d] \/ (cl[c] = cl[d] /\ c <= d)

ups_apply(on, S, ok) == IF ok THEN on \cup (S \cap PossibleCpus) ELSE on

----------------------------------------------------------------------------
(* Variant A: the conditions of hotplug_decision_work_fn *)

\* line 216
scale_down_cond(avg, oc) == avg <= disable_load[oc] /\ oc > min_online_units

\* Mutant of offline_commit: > for >=
offline_commit_late(off_s) == off_s > offline_sampling_periods

\* line 217
offline_commit(off_s) == off_s >= offline_sampling_periods

\* Mutant of scale_up_guard: <= for <
scale_up_guard_le(oc) == oc <= available_cpus

\* line 230
scale_up_guard(oc) == oc < available_cpus

\* Mutant of burst_cond: > for >=
burst_cond_strict(avg) == avg > enable_all_load

\* line 232
burst_cond(avg) == avg >= enable_all_load

\* Mutant of enable_threshold: the threshold of one online CPU for every count
enable_threshold_scalar(oc, lm) == enable_load[1] * lm

\* line 239
enable_threshold(oc, lm) == enable_load[oc] * lm

\* Mutant of online_commit: > for >=
online_commit_late(on_s) == on_s > online_sampling_periods

\* Mutant of online_commit: one period early
online_commit_early(on_s) == on_s >= online_sampling_periods - 1

\* line 242
online_commit(on_s) == on_s >= online_sampling_periods

\* hotplug_offline_work, lines 186-188: get_cpu_load is called for the online
\* CPUs other than 0; the loads it returned, 0 where it was not called
cpu_loads_read(on, cl) == [c \in PossibleCpus |-> IF c \in on /\ c # 0 THEN cl[c] ELSE 0]

(* hotplug_decision_work_fn, lines 212-251.  oc is the static online_cpus  *)
(* (refreshed only at the end of the previous tick) and lm the             *)
(* load_multiplier read at line 239.  load_disable and load_enable are     *)
(* statics that every tick writes before it reads them: the result holds   *)
(* the value the tick assigned, -1 when it assigned none.  commit tells    *)
(* that the tick called a work function.                                   *)
hotplug_decision(on, oc, on_s, off_s, lm, avg, io, ok, cl) ==
    LET base == [online |-> on, online_sample |-> on_s, offline_sample |-> off_s,
                 load_disable |-> disable_load[oc], load_enable |-> -1,
                 branch |-> "noop", commit |-> FALSE, ups |-> {}, downs |-> {}]
    IN  IF scale_down_cond(avg, oc)
        THEN IF offline_commit(off_s)
             THEN IF io = 0
                  THEN [base EXCEPT !.online = cpu_down(on, idlest_cpu(on, cl), ok),
                                    !.downs = {idlest_cpu(on, cl)},
                                    !.offline_sample = 1,
                                    !.online_sample = 1,
                                    !.commit = TRUE,
                                    !.branch = "down"]
                  ELSE [base EXCEPT !.online_sample = 1, !.branch = "down"]
             ELSE [base EXCEPT !.offline_sample = off_s + 1,
                               !.online_sample = 1,
                               !.branch = "down"]
        ELSE IF scale_up_guard(oc)
        THEN IF burst_cond(avg)
             THEN [base EXCEPT !.online = ups_apply(on, online_all_targets(on), ok),
                               !.ups = online_all_targets(on),
                               !.offline_sample = 1,
                               !.commit = TRUE,
                               !.branch = "all"]
             ELSE LET len == enable_threshold(oc, lm)
                  IN  IF avg >= len
                      THEN IF online_commit(on_s)
                           THEN [base EXCEPT !.online = ups_apply(on, online_single_target(on), ok),
                                             !.ups = online_single_target(on),
                                             !.online_sample = 1,
                                             !.offline_sample = 1,
                                             !.load_enable = len,
                                             !.commit = TRUE,
                                             !.branch = "inc"]
                           ELSE [base EXCEPT !.online_sample = on_s + 1,
                                             !.offline_sample = 1,
                                             !.load_enable = len,
                                             !.branch = "inc"]
                      ELSE [base EXCEPT !.load_enable = len]
        ELSE base

\* Mutant of update_sampling_rate: the multiplier is left out
update_sampling_rate_flat(oc, lm) == sample_rate[oc]

\* update_sampling_rate, lines 202-206
update_sampling_rate(oc, lm) == sample_rate[oc] * lm

\* queue_delayed_work on the one struct delayed_work: a no-op while it is pending
queue_delayed_work(p) == IF p > 0 THEN p ELSE p + 1

\* Mutant of requeue: the work function does not queue its next run
requeue_never(step, p) == p

\* Mutant of requeue: the next run is queued where the function starts
requeue_at_start(step, p) == IF step = "decide" THEN queue_delayed_work(p) ELSE p

\* Where hotplug_decision_work_fn queues its next run: at the exit label
\* (line 259), not where it starts.
requeue(step, p) == IF step = "exit" THEN queue_delayed_work(p) ELSE p

----------------------------------------------------------------------------
(* Observers: what the last tick read and did, and counts over the ticks.  *)

NoTick == [load |-> 0, io |-> 0, ok |-> TRUE, cl |-> NoCpuLoad, pre |-> {}, n |-> 0, oc |-> 0,
           load_disable |-> -1, load_enable |-> -1,
           branch |-> "none", commit |-> FALSE, ups |-> {}, downs |-> {}]

\* The incremental scale-up condition for the real online count n
Qualifies(n, lm, avg) ==
    /\ n < available_cpus
    /\ enable_load[n] * lm <= avg
    /\ avg < enable_all_load

Min2(a, b) == IF a < b THEN a ELSE b

(* c2run:   consecutive ticks, the last one included, whose load qualified *)
(*          for the real online count, counted from a tick that found      *)
(*          online_sample = 1 (and anew after the tick that completes K)   *)
(* qrun:    consecutive ticks, the last one included, whose load qualified *)
(*          for the real online count                                      *)
(* incs:    ticks that took the incremental branch since online_sample was *)
(*          last reset (a scale-down-branch tick or an activation)         *)
(* tainted: online_sample holds an increment of a tick that decided on an  *)
(*          online_cpus other than the real count (the first tick)         *)
NoObs == [qrun |-> 0, c2run |-> 0, incs |-> 0, tainted |-> FALSE]

NextObs(avg, r) ==
    LET n == num_online_cpus(online)
        q == Qualifies(n, load_multiplier, avg)
        K == online_sampling_periods
        c2base == IF obs.c2run = K THEN 0 ELSE obs.c2run
        ibase == IF tk.branch = "inc" /\ tk.commit THEN 0 ELSE obs.incs
        tbase == obs.tainted /\ ~(tk.branch = "inc" /\ tk.commit)
    IN  [qrun  |-> IF q THEN Min2(K, obs.qrun + 1) ELSE 0,
         c2run |-> IF ~q THEN 0
                   ELSE IF c2base = 0
                        THEN (IF online_sample = 1 THEN 1 ELSE 0)
                        ELSE c2base + 1,
         incs  |-> IF r.branch = "down" THEN 0
                   ELSE IF r.branch = "inc" THEN Min2(K, ibase + 1)
                   ELSE ibase,
         tainted |-> IF r.branch = "down" THEN FALSE
                     ELSE tbase \/ (online_cpus # n /\ r.branch = "inc" /\ ~q)]

\* The indices at which the last tick read enable_load (line 239) and
\* disable_load (line 214)
enable_load_read == IF tk.load_enable # -1 THEN {tk.oc} ELSE {}

disable_load_read == IF tk.load_disable # -1 THEN {tk.oc} ELSE {}

----------------------------------------------------------------------------
\* ix_hotplug_probe, lines 298-323, with the statics of lines 77-90
Init ==
    /\ online \in {S \cup {0} : S \in SUBSET (PossibleCpus \ {0})}
    /\ online_cpus = 0
    /\ online_sample = 1
    /\ offline_sample = 1
    /\ load_multiplier = 1
    /\ sampling_rate = 100
    /\ pending = 1
    /\ running = 0
    /\ mutex = "free"
    /\ handled = "none"
    /\ removed = FALSE
    /\ crashed = FALSE
    /\ history = NoHistory
    /\ index = 0
    /\ susp = "on"
    /\ cpuload = NoCpuLoadData
    /\ ld = NoLoad
    /\ tk = NoTick
    /\ obs = NoObs

\* The inputs that the branch taken does not read are fixed to 0.
DownCommit(avg) == scale_down_cond(avg, online_cpus) /\ offline_commit(offline_sample)

\* hotplug_decision_work_fn, lines 208-251: the work item starts and decides
TickDecide ==
    /\ ~crashed
    /\ pending > 0
    /\ running = 0
    /\ \E avg \in Loads, ok \in BOOLEAN :
       \E io \in (IF DownCommit(avg) THEN IoWaits ELSE {0}) :
       \E cl \in (IF DownCommit(avg) /\ io = 0 THEN CpuLoadFns ELSE {NoCpuLoad}) :
          LET r == hotplug_decision(online, online_cpus, online_sample, offline_sample,
                                    load_multiplier, avg, io, ok, cl)
          IN  /\ online' = r.online
              /\ online_sample' = r.online_sample
              /\ offline_sample' = r.offline_sample
              /\ tk' = [load |-> avg, io |-> io, ok |-> ok,
                        cl |-> cpu_loads_read(online, cl), pre |-> online,
                        n |-> num_online_cpus(online), oc |-> online_cpus,
                        load_disable |-> r.load_disable, load_enable |-> r.load_enable,
                        branch |-> r.branch, commit |-> r.commit,
                        ups |-> r.ups, downs |-> r.downs]
              /\ obs' = NextObs(avg, r)
    /\ pending' = requeue("decide", pending - 1)
    /\ running' = running + 1
    /\ UNCHANGED <<cpuload, ld, history, index, susp, online_cpus, load_multiplier, sampling_rate, mutex,
                   handled, removed, crashed>>

\* hotplug_decision_work_fn, lines 253-260: the exit label.  Line 259 queues
\* the next run with the delay sampling_rate that line 204 has just written
\* (nothing else writes sampling_rate).
TickExit ==
    /\ ~crashed
    /\ running > 0
    /\ online_cpus' = num_online_cpus(online)
    /\ sampling_rate' = update_sampling_rate(online_cpus', load_multiplier)
    /\ pending' = requeue("exit", pending)
    /\ running' = running - 1
    /\ UNCHANGED <<cpuload, ld, history, index, susp, online, online_sample, offline_sample, load_multiplier,
                   mutex, handled, removed, crashed, tk, obs>>

\* ix_hotplug_early_suspend, lines 281-284, schedules the work item suspend;
\* ix_hotplug_suspend, line 265: it starts and takes the mutex
SuspendLock ==
    /\ ~crashed
    /\ mutex = "free"
    /\ mutex' = "suspend"
    /\ UNCHANGED <<cpuload, ld, history, index, susp, online, online_cpus, online_sample, offline_sample,
                   load_multiplier, sampling_rate, pending, running, handled,
                   removed, crashed, tk, obs>>

\* Mutant of SuspendWrite: the work item also takes every CPU but 0 offline
SuspendWriteOffline ==
    /\ ~crashed
    /\ mutex = "suspend"
    /\ load_multiplier' = load_multiplier_suspended
    /\ online' = {0}
    /\ mutex' = "free"
    /\ handled' = "suspend"
    /\ UNCHANGED <<cpuload, ld, history, index, susp, online_cpus, online_sample, offline_sample,
                   sampling_rate, pending, running, removed, crashed, tk, obs>>

\* ix_hotplug_suspend, lines 266-267: the write and mutex_unlock
SuspendWrite ==
    /\ ~crashed
    /\ mutex = "suspend"
    /\ load_multiplier' = load_multiplier_suspended
    /\ mutex' = "free"
    /\ handled' = "suspend"
    /\ UNCHANGED <<cpuload, ld, history, index, susp, online, online_cpus, online_sample, offline_sample,
                   sampling_rate, pending, running, removed, crashed, tk, obs>>

\* ix_hotplug_late_resume, lines 286-289, schedules the work item resume;
\* ix_hotplug_resume, line 274: it starts and takes the mutex
ResumeLock ==
    /\ ~crashed
    /\ mutex = "free"
    /\ mutex' = "resume"
    /\ UNCHANGED <<cpuload, ld, history, index, susp, online, online_cpus, online_sample, offline_sample,
                   load_multiplier, sampling_rate, pending, running, handled,
                   removed, crashed, tk, obs>>

\* ix_hotplug_resume, lines 275-276: the write and mutex_unlock
ResumeWrite ==
    /\ ~crashed
    /\ mutex = "resume"
    /\ load_multiplier' = 1
    /\ mutex' = "free"
    /\ handled' = "resume"
    /\ UNCHANGED <<cpuload, ld, history, index, susp, online, online_cpus, online_sample, offline_sample,
                   sampling_rate, pending, running, removed, crashed, tk, obs>>

\* ix_hotplug_remove, lines 330-335: destroy_workqueue waits for the work
\* item that is executing and frees the workqueue; the armed timer of the
\* delayed work is not on the workqueue and stays armed.
Remove ==
    /\ ~crashed
    /\ ~removed
    /\ running = 0
    /\ removed' = TRUE
    /\ UNCHANGED <<cpuload, ld, history, index, susp, online, online_cpus, online_sample, offline_sample,
                   load_multiplier, sampling_rate, pending, running, mutex,
                   handled, crashed, tk, obs>>

\* The timer of the delayed work expires after ix_hotplug_remove and queues
\* onto the freed workqueue.  The use after free either faults (Fault) or,
\* the memory being still intact, runs the tick (TickDecide).
Fault ==
    /\ ~crashed
    /\ removed
    /\ pending > 0
    /\ running = 0
    /\ crashed' = TRUE
    /\ UNCHANGED <<cpuload, ld, history, index, susp, online, online_cpus, online_sample, offline_sample,
                   load_multiplier, sampling_rate, pending, running, mutex,
                   handled, removed, tk, obs>>

Next ==
    \/ TickDecide
    \/ TickExit
    \/ SuspendLock
    \/ SuspendWrite
    \/ ResumeLock
    \/ ResumeWrite
    \/ Remove
    \/ Fault

Spec == Init /\ [][Next]_vars

\* The timer of the delayed work expires and the workqueue thread runs the
\* work item (TickDecide); the work function returns (TickExit), cpu_up and
\* cpu_down being synchronous and bounded.
Fairness == WF_vars(TickDecide) /\ WF_vars(TickExit)

SpecLive == Spec /\ Fairness

----------------------------------------------------------------------------
(* get_cpu_load on its own: hotplug_offline_work (line 188) calls it for    *)
(* the online CPUs other than 0, at most MaxCalls times in all.            *)

UnusedLoad == <<online, online_cpus, online_sample, offline_sample, load_multiplier,
                sampling_rate, pending, running, mutex, handled, removed, crashed,
                history, index, susp, tk, obs>>

InitLoad == Init /\ online = PossibleCpus

GetCpuLoad ==
    /\ ld.total < MaxCalls
    /\ \E cpu \in online \ {0}, dw \in WallDeltas, di \in IdleDeltas, policy \in Policies :
          LET pcpu == cpuload[cpu]
              r == get_cpu_load(pcpu, pcpu.prev_cpu_wall + dw, pcpu.prev_cpu_idle + di, policy)
          IN  /\ cpuload' = [cpuload EXCEPT ![cpu] = r.pcpu]
              /\ ld' = [calls |-> [ld.calls EXCEPT ![cpu] = @ + 1],
                        total |-> ld.total + 1,
                        cpu |-> cpu, nth |-> ld.calls[cpu] + 1,
                        wall_delta |-> dw, idle_delta |-> di,
                        policy |-> policy, ret |-> r.ret]
    /\ UNCHANGED UnusedLoad

NextLoad == GetCpuLoad

SpecLoad == InitLoad /\ [][NextLoad]_vars

----------------------------------------------------------------------------
(* Variant B: ix_hotplug.c lines 378-672.  The tick reads num_online_cpus  *)
(* itself; suspend and resume are work items that take every CPU but 0     *)
(* offline, or all online.  Each work item is one step.                    *)

available_cpusB == 4
enable_all_loadB == 600
enable_loadB == [i \in 0..4 |-> CASE i = 2 -> 235 [] i = 3 -> 300 [] i = 4 -> 4000 [] OTHER -> 200]
disable_loadB == 70
online_sampling_periodsB == 3
offline_sampling_periodsB == 5
sampling_rateB == 100

LoadsB == {0, 50, 70, 200, 250, 600}

\* Mutant of online_commitB: > for >=
online_commitB_late(on_s) == on_s > online_sampling_periodsB

\* line 514
online_commitB(on_s) == on_s >= online_sampling_periodsB

\* line 524
offline_commitB(off_s) == off_s >= offline_sampling_periodsB

\* Mutant of first_online_nonzero: the last online CPU other than 0
last_online_nonzero(on) ==
    LET cand == {c \in on : c # 0}
    IN  IF cand = {} THEN {} ELSE {CHOOSE x \in cand : \A y \in cand : x >= y}

\* hotplug_offline_work, lines 488-499: the first online CPU other than 0
first_online_nonzero(on) ==
    LET cand == {c \in on : c # 0}
    IN  IF cand = {} THEN {} ELSE {SetMin(cand)}

\* hotplug_decision_work_fn, lines 501-533
hotplug_decisionB(on, on_s, off_s, sr, avg, ok) ==
    LET oc == num_online_cpus(on)
        base == [online |-> on, online_sample |-> on_s, offline_sample |-> off_s,
                 sampling_rate |-> sr,
                 branch |-> "noop", commit |-> FALSE, ups |-> {}, downs |-> {}]
    IN  IF avg >= enable_all_loadB /\ oc < available_cpusB
        THEN [base EXCEPT !.online = ups_apply(on, online_all_targets(on), ok),
                          !.ups = online_all_targets(on),
                          !.commit = TRUE,
                          !.branch = "all"]
        ELSE IF avg >= enable_loadB[oc] /\ oc < available_cpusB
        THEN IF online_commitB(on_s)
             THEN [base EXCEPT !.online = ups_apply(on, online_single_target(on), ok),
                               !.ups = online_single_target(on),
                               !.sampling_rate = 50 * oc + 50,
                               !.online_sample = 1,
                               !.offline_sample = 1,
                               !.commit = TRUE,
                               !.branch = "inc"]
             ELSE [base EXCEPT !.online_sample = on_s + 1,
                               !.offline_sample = 1,
                               !.branch = "inc"]
        ELSE IF avg <= disable_loadB /\ oc > 1
        THEN IF offline_commitB(off_s)
             THEN [base EXCEPT !.online = IF ok THEN on \ first_online_nonzero(on) ELSE on,
                               !.downs = first_online_nonzero(on),
                               !.sampling_rate = 50 * oc,
                               !.offline_sample = 1,
                               !.online_sample = 1,
                               !.commit = TRUE,
                               !.branch = "down"]
             ELSE [base EXCEPT !.offline_sample = off_s + 1,
                               !.online_sample = 1,
                               !.branch = "down"]
        ELSE base

NoTickB == [load |-> 0, ok |-> TRUE, pre |-> {}, n |-> 0,
            branch |-> "none", commit |-> FALSE, ups |-> {}, downs |-> {}]

(* scen: how far the last ticks have followed the scenario "one CPU online *)
(* and both streaks 1, then load 250 three times, then load 50 five times", *)
(* with cpu_up and cpu_down succeeding and no suspend or resume in between. *)
ScenLen == online_sampling_periodsB + offline_sampling_periodsB

NextScen(avg, ok) ==
    LET ScenUp == 250
        ScenDown == 50
        start == /\ num_online_cpus(online) = 1
                 /\ online_sample = 1 /\ offline_sample = 1
                 /\ avg = ScenUp
        fresh == IF start /\ ok THEN 1 ELSE 0
    IN  IF ~ok THEN 0
        ELSE IF obs.scen \in 1..(online_sampling_periodsB - 1) /\ avg = ScenUp
        THEN obs.scen + 1
        ELSE IF obs.scen \in online_sampling_periodsB..(ScenLen - 1) /\ avg = ScenDown
        THEN obs.scen + 1
        ELSE fresh

UnusedB == <<cpuload, ld, history, index, susp, online_cpus, load_multiplier, mutex, handled, removed, crashed>>

\* ix_hotplug_probe, lines 584-614, with the statics of lines 448-458
InitB ==
    /\ online \in {S \cup {0} : S \in SUBSET (PossibleCpus \ {0})}
    /\ online_cpus = 0
    /\ online_sample = 1
    /\ offline_sample = 1
    /\ load_multiplier = 1
    /\ sampling_rate = sampling_rateB
    /\ pending = 1
    /\ running = 0
    /\ mutex = "free"
    /\ handled = "none"
    /\ removed = FALSE
    /\ crashed = FALSE
    /\ history = NoHistory
    /\ index = 0
    /\ susp = "on"
    /\ cpuload = NoCpuLoadData
    /\ ld = NoLoad
    /\ tk = NoTickB
    /\ obs = [scen |-> 0]

\* hotplug_decision_work_fn, lines 501-536
TickB ==
    /\ pending > 0
    /\ running = 0
    /\ \E avg \in LoadsB, ok \in BOOLEAN :
          LET r == hotplug_decisionB(online, online_sample, offline_sample,
                                     sampling_rate, avg, ok)
          IN  /\ online' = r.online
              /\ online_sample' = r.online_sample
              /\ offline_sample' = r.offline_sample
              /\ sampling_rate' = r.sampling_rate
              /\ tk' = [load |-> avg, ok |-> ok, pre |-> online,
                        n |-> num_online_cpus(online),
                        branch |-> r.branch, commit |-> r.commit,
                        ups |-> r.ups, downs |-> r.downs]
              /\ obs' = [scen |-> NextScen(avg, ok)]
    /\ pending' = queue_delayed_work(pending - 1)
    /\ UNCHANGED running
    /\ UNCHANGED UnusedB

\* ix_hotplug_early_suspend and ix_hotplug_suspend, lines 539-570
SuspendB ==
    /\ \E ok \in BOOLEAN : online' = IF ok THEN {0} ELSE online
    /\ handled' = "suspend"
    /\ obs' = [scen |-> 0]
    /\ UNCHANGED <<cpuload, ld, history, index, susp, online_cpus, online_sample, offline_sample, load_multiplier,
                   sampling_rate, pending, running, mutex, removed, crashed, tk>>

\* ix_hotplug_late_resume and ix_hotplug_resume, lines 554-575
ResumeB ==
    /\ \E ok \in BOOLEAN : online' = IF ok THEN PossibleCpus ELSE online
    /\ handled' = "resume"
    /\ obs' = [scen |-> 0]
    /\ UNCHANGED <<cpuload, ld, history, index, susp, online_cpus, online_sample, offline_sample, load_multiplier,
                   sampling_rate, pending, running, mutex, removed, crashed, tk>>

NextB ==
    \/ TickB
    \/ SuspendB
    \/ ResumeB

SpecB == InitB /\ [][NextB]_vars

----------------------------------------------------------------------------
(* Variant C: auto_hotplug.c.  The tick averages the last SAMPLING_PERIODS *)
(* samples of nr_running() * 100 held in a ring buffer and acts on the     *)
(* average at once (no streaks).  The early-suspend handler cancels the    *)
(* delayed work and waits for a run that is executing, then takes CPUs 3,  *)
(* 2, 1 offline; the late-resume handler brings them online and queues the *)
(* work.  The early-suspend framework calls the two handlers in turn.      *)

CPUS_AVAILABLE == 4
ENABLE_ALL_LOAD_THRESHOLD == 600
ENABLE_LOAD_THRESHOLD == 275
DISABLE_LOAD_THRESHOLD == 125
MIN_SAMPLING_RATE == 100

\* The values of nr_running() a tick may sample: idle or busy, with at most
\* MaxBusy busy samples among the SAMPLING_PERIODS the ring buffer holds.
NrRunning == {0, 30}
MaxBusy == 2
Busy(h, i) == Cardinality({k \in 0..INDEX_MAX_VALUE : k # i /\ h[k] # 0})
Samples(h, i) == IF Busy(h, i) < MaxBusy THEN NrRunning ELSE {0}

\* lines 167-171: the loop "for (i = 0, j = index; i < SAMPLING_PERIODS;
\* i++, j--)" whose body sets j to INDEX_MAX_VALUE when j == 0, before j--
RECURSIVE sum_history(_, _, _)
sum_history(h, i, j) ==
    IF i >= SAMPLING_PERIODS THEN 0
    ELSE h[j] + sum_history(h, i + 1, (IF j = 0 THEN INDEX_MAX_VALUE ELSE j) - 1)

\* lines 176-177
next_index(i) == IF i = INDEX_MAX_VALUE THEN 0 ELSE i + 1

\* hotplug_decision_work_fn, lines 139-204, after the sample is stored
hotplug_decisionC(on, avg, ok) ==
    LET oc == num_online_cpus(on)
        base == [online |-> on, branch |-> "noop", ups |-> {}, downs |-> {}]
    IN  IF avg >= ENABLE_ALL_LOAD_THRESHOLD /\ oc < CPUS_AVAILABLE
        THEN [base EXCEPT !.online = ups_apply(on, online_all_targets(on), ok),
                          !.ups = online_all_targets(on),
                          !.branch = "all"]
        ELSE IF avg >= ENABLE_LOAD_THRESHOLD * oc /\ oc < CPUS_AVAILABLE
        THEN [base EXCEPT !.online = ups_apply(on, online_single_target(on), ok),
                          !.ups = online_single_target(on),
                          !.branch = "inc"]
        ELSE IF avg <= DISABLE_LOAD_THRESHOLD * oc
        THEN [base EXCEPT !.online = IF ok THEN on \ first_online_nonzero(on) ELSE on,
                          !.downs = first_online_nonzero(on),
                          !.branch = "down"]
        ELSE base

NoTickC == [load |-> 0, ok |-> TRUE, pre |-> {}, n |-> 0,
            branch |-> "none", ups |-> {}, downs |-> {}]

UnusedC == <<cpuload, ld, online_cpus, online_sample, offline_sample, load_multiplier,
             sampling_rate, mutex, handled, removed, crashed, obs>>

\* auto_hotplug_init, lines 358-391, with the statics of lines 82-88
InitC ==
    /\ online \in {S \cup {0} : S \in SUBSET (PossibleCpus \ {0})}
    /\ online_cpus = 0
    /\ online_sample = 1
    /\ offline_sample = 1
    /\ load_multiplier = 1
    /\ sampling_rate = MIN_SAMPLING_RATE
    /\ pending = 1
    /\ running = 0
    /\ mutex = "free"
    /\ handled = "none"
    /\ removed = FALSE
    /\ crashed = FALSE
    /\ history = NoHistory
    /\ index = 0
    /\ susp = "on"
    /\ cpuload = NoCpuLoadData
    /\ ld = NoLoad
    /\ tk = NoTickC
    /\ obs = NoObs

\* hotplug_decision_work_fn, lines 131-204: the work item starts, samples
\* and acts
TickDecideC ==
    /\ pending > 0
    /\ running = 0
    /\ \E nr \in Samples(history, index), ok \in BOOLEAN :
          LET h == [history EXCEPT ![index] = nr * 100]
              avg == sum_history(h, 0, index) \div SAMPLING_PERIODS
              r == hotplug_decisionC(online, avg, ok)
          IN  /\ history' = h
              /\ index' = next_index(index)
              /\ online' = r.online
              /\ tk' = [load |-> avg, ok |-> ok, pre |-> online,
                        n |-> num_online_cpus(online),
                        branch |-> r.branch, ups |-> r.ups, downs |-> r.downs]
    /\ pending' = pending - 1
    /\ running' = running + 1
    /\ UNCHANGED susp
    /\ UNCHANGED UnusedC

\* hotplug_decision_work_fn, line 214: the work item queues itself and ends;
\* cancel_delayed_work_sync, while it waits, owns the pending bit, and the
\* queueing then does nothing
TickExitC ==
    /\ running > 0
    /\ pending' = IF susp = "canceling" THEN pending ELSE queue_delayed_work(pending)
    /\ running' = running - 1
    /\ UNCHANGED <<online, history, index, susp, tk>>
    /\ UNCHANGED UnusedC

\* auto_hotplug_early_suspend, line 330: cancel_delayed_work_sync takes the
\* pending run off the timer
EarlySuspendCancelC ==
    /\ susp = "on"
    /\ pending' = 0
    /\ susp' = "canceling"
    /\ UNCHANGED <<online, running, history, index, tk>>
    /\ UNCHANGED UnusedC

\* auto_hotplug_early_suspend, lines 330-335: cancel_delayed_work_sync and
\* flush_workqueue return once no run executes; cpu_down of 3, 2, 1, each
\* of which may fail
EarlySuspendDownC ==
    /\ susp = "canceling"
    /\ running = 0
    /\ \E done \in SUBSET (PossibleCpus \ {0}) : online' = online \ done
    /\ susp' = "off"
    /\ UNCHANGED <<pending, running, history, index, tk>>
    /\ UNCHANGED UnusedC

\* auto_hotplug_late_resume, lines 339-349: cpu_up of 1, 2, 3, each of
\* which may fail, and the work queued
LateResumeC ==
    /\ susp = "off"
    /\ \E done \in SUBSET (PossibleCpus \ {0}) : online' = online \cup done
    /\ pending' = queue_delayed_work(pending)
    /\ susp' = "on"
    /\ UNCHANGED <<running, history, index, tk>>
    /\ UNCHANGED UnusedC

NextC ==
    \/ TickDecideC
    \/ TickExitC
    \/ EarlySuspendCancelC
    \/ EarlySuspendDownC
    \/ LateResumeC

SpecC == InitC /\ [][NextC]_vars

----------------------------------------------------------------------------
(* Claims, variant A (specification Spec) *)

Ticked == tk.branch # "none"

\* C1: in every reachable state CPU 0 is online, at least min_online_units
\* CPUs are online, and the last tick did not pass CPU 0 to cpu_down.
C1_MonotonicFloor ==
    /\ 0 \in online
    /\ Cardinality(online) >= min_online_units
    /\ 0 \notin tk.downs

\* A tick took the last CPU but CPU 0 offline, after a suspend or resume.
C1_Witness ==
    /\ tk.branch = "down" /\ tk.commit /\ tk.ok
    /\ tk.downs # {} /\ tk.downs \subseteq tk.pre
    /\ online = {0}
    /\ handled # "none"

\* C2: from online_sample = 1, of online_sampling_periods consecutive ticks
\* whose load satisfies the incremental scale-up condition for the real
\* online count, the first ones call no primitive and the last one calls
\* cpu_up for exactly one CPU (which comes online when cpu_up succeeds).
C2_HysteresisCommit ==
    /\ obs.c2run \in 1..(online_sampling_periods - 1) =>
          /\ tk.ups = {} /\ tk.downs = {} /\ ~tk.commit
          /\ online = tk.pre
    /\ obs.c2run = online_sampling_periods =>
          /\ tk.branch = "inc" /\ tk.commit
          /\ Cardinality(tk.ups) = 1 /\ tk.downs = {}
          /\ tk.ups \cap tk.pre = {}
          /\ tk.ok => online = tk.pre \cup tk.ups
          /\ online_sample = 1

\* The third qualifying tick in a row brought one CPU online.
C2_Witness ==
    /\ obs.c2run = online_sampling_periods
    /\ tk.ok
    /\ Cardinality(online) = tk.n + 1

\* C3 as stated: a tick activates a CPU by the incremental rule only when it
\* and the online_sampling_periods - 1 ticks right before it all satisfied
\* the scale-up condition.  (Stated for the streaks that hold no increment of
\* the first tick, which decides on online_cpus = 0.)
C3_Original ==
    (tk.branch = "inc" /\ tk.commit /\ ~obs.tainted) =>
        obs.qrun >= online_sampling_periods

\* C3 amended: a tick activates a CPU by the incremental rule only when it
\* takes the incremental branch itself (its load reaches the threshold it
\* computed) and is at least the online_sampling_periods-th tick to take
\* that branch since online_sample was last reset by a scale-down-branch
\* tick or an activation; ticks in between that match no rule, or the burst
\* rule, leave the streak as it is.
C3_HysteresisInterruption ==
    /\ (tk.branch = "inc" /\ tk.commit) =>
          /\ obs.incs >= online_sampling_periods
          /\ tk.load >= tk.load_enable
    /\ (tk.ups # {} /\ tk.branch # "all") => (tk.branch = "inc" /\ tk.commit)

\* An activation on a tick whose predecessor did not qualify.
C3_Witness ==
    /\ tk.branch = "inc" /\ tk.commit /\ tk.ups # {}
    /\ obs.qrun < online_sampling_periods
    /\ obs.incs >= online_sampling_periods

\* C4: a tick whose load lies strictly between disable_load[n] and
\* enable_load[n], n the real online count, calls no primitive and leaves
\* the set of online CPUs as it was; so a constant such load never acts.
C4_NoOscillation ==
    (/\ Ticked
     /\ disable_load[tk.n] < tk.load
     /\ tk.load < enable_load[tk.n])
    => (tk.ups = {} /\ tk.downs = {} /\ ~tk.commit /\ online = tk.pre)

\* Such a tick with the online streak full and two CPUs online.
C4_Witness ==
    /\ Ticked
    /\ tk.n = 2
    /\ disable_load[tk.n] < tk.load /\ tk.load < enable_load[tk.n]
    /\ online_sample = online_sampling_periods
    /\ online = tk.pre

\* C5: a tick with fewer than available_cpus CPUs online and a load of at
\* least enable_all_load calls cpu_up for every offline CPU (all are online
\* after it when cpu_up succeeds), whatever the streaks, and leaves
\* offline_sample = 1.
C5_BurstBypass ==
    (/\ Ticked
     /\ tk.n < available_cpus
     /\ tk.load >= enable_all_load)
    => /\ tk.branch = "all"
       /\ tk.ups = PossibleCpus \ tk.pre
       /\ tk.ok => online = PossibleCpus
       /\ offline_sample = 1

\* A burst from one online CPU to all, with the online streak at its maximum.
C5_Witness ==
    /\ tk.branch = "all" /\ tk.ok
    /\ tk.n = 1
    /\ tk.load >= enable_all_load
    /\ online = PossibleCpus
    /\ online_sample = online_sampling_periods

\* C6: a completed suspend work item leaves load_multiplier =
\* load_multiplier_suspended and a completed resume work item leaves it 1;
\* a tick that runs after the one or the other compares the load with
\* enable_load[n] times that multiplier, n the real online count.
C6_SuspendScaling ==
    [][/\ (mutex = "suspend" /\ mutex' = "free") =>
              load_multiplier' = load_multiplier_suspended
       /\ (mutex = "resume" /\ mutex' = "free") => load_multiplier' = 1
       /\ (running' = running + 1 /\ handled # "none" /\ tk'.load_enable # -1) =>
              tk'.load_enable = enable_load[num_online_cpus(online)]
                                * (IF handled = "suspend"
                                   THEN load_multiplier_suspended ELSE 1)]_vars

\* C8: at most one run of hotplug_decision_work_fn executes and at most one
\* is pending, and none is pending while one executes (the next run is
\* queued only at the exit label), whatever suspend and resume do.
C8_TicksNeverOverlap ==
    /\ running <= 1
    /\ pending <= 1
    /\ running + pending <= 1

\* A tick executing while the suspend work item holds the mutex.
C8_Witness ==
    /\ running = 1
    /\ mutex = "suspend"
    /\ handled = "resume"
    /\ Ticked

\* C9: the tick reads load_multiplier (line 239 in TickDecide, line 204 in
\* TickExit) only while it holds ix_hotplug_mutex.
C9_LockDiscipline ==
    [][/\ (running' = running + 1 /\ tk'.load_enable # -1) => mutex = "tick"
       /\ (running' = running - 1) => mutex = "tick"]_vars

\* C10: once ix_hotplug_remove has returned, no run of the tick is pending
\* or executing.
C10_ShutdownCancel == removed => (pending = 0 /\ running = 0)

\* C11: a step of the suspend or the resume work item (the steps that take
\* or release ix_hotplug_mutex) leaves the set of online CPUs, online_sample,
\* offline_sample, the pending and the executing tick as they were, and
\* load_multiplier changes in no other step.
C11_SuspendResumeFrame ==
    [][/\ (mutex' # mutex) =>
              UNCHANGED <<online, online_sample, offline_sample, pending, running>>
       /\ (load_multiplier' # load_multiplier) => (mutex # "free" /\ mutex' = "free")]_vars

\* The suspend work item has completed while a tick executes, with two CPUs
\* online and the online streak full.
C11_Witness ==
    /\ handled = "suspend"
    /\ load_multiplier = load_multiplier_suspended
    /\ mutex = "free"
    /\ running = 1
    /\ num_online_cpus(online) = 2
    /\ online_sample = online_sampling_periods

\* C12: every run of hotplug_decision_work_fn, whatever branch it took, ends
\* by queueing exactly one next run (none was pending, one is); every run
\* that executes reaches that end, and again and again a run executes,
\* unless ix_hotplug_remove has returned.  (Specification SpecLive.)
C12_ControlLoopLiveness ==
    /\ [][(running' = running - 1) => (pending = 0 /\ pending' = 1)]_vars
    /\ []<>(running = 0)
    /\ []<>(running = 1 \/ removed)

\* A tick that took a CPU offline has ended and its successor is pending.
C12_Witness ==
    /\ tk.branch = "down" /\ tk.commit
    /\ running = 0
    /\ pending = 1
    /\ ~removed

\* C13 as stated: a tick whose load is at most disable_load[n], with n >
\* min_online_units CPUs online and offline_sample >= offline_sampling_periods,
\* calls cpu_down for exactly one CPU and leaves offline_sample = 1, whatever
\* io_wait is; a tick that takes the scale-down branch leaves online_sample = 1.
C13_Original ==
    [][(running' = running + 1) =>
          LET n == num_online_cpus(online)
          IN  /\ (/\ tk'.load <= disable_load[n]
                   /\ n > min_online_units
                   /\ offline_sample >= offline_sampling_periods)
                  => /\ Cardinality(tk'.downs) = 1
                     /\ offline_sample' = 1
              /\ (tk'.branch = "down") => online_sample' = 1]_vars

\* C13 amended: such a tick calls cpu_down for exactly one CPU (an online CPU
\* other than 0, offline afterwards when cpu_down succeeds) and leaves
\* offline_sample = 1 when io_wait = 0; when io_wait # 0 it calls no
\* primitive and leaves offline_sample as it was.  Either way, and on every
\* tick that takes the scale-down branch, online_sample is 1 afterwards.
C13_ScaleDownCommit ==
    [][(running' = running + 1) =>
          LET n == num_online_cpus(online)
              due == /\ tk'.load <= disable_load[n]
                     /\ n > min_online_units
                     /\ offline_sample >= offline_sampling_periods
          IN  /\ (due /\ tk'.io = 0)
                  => /\ Cardinality(tk'.downs) = 1
                     /\ tk'.downs \subseteq online \ {0}
                     /\ tk'.ups = {}
                     /\ tk'.ok => online' = online \ tk'.downs
                     /\ offline_sample' = 1
                     /\ online_sample' = 1
              /\ (due /\ tk'.io # 0)
                  => /\ tk'.downs = {} /\ tk'.ups = {}
                     /\ online' = online
                     /\ offline_sample' = offline_sample
                     /\ online_sample' = 1
              /\ (tk'.branch = "down") => online_sample' = 1]_vars

\* A tick with io_wait = 0 took one of three online CPUs offline.
C13_Witness ==
    /\ tk.branch = "down" /\ tk.commit /\ tk.ok
    /\ tk.io = 0
    /\ tk.n = 3
    /\ num_online_cpus(online) = 2
    /\ offline_sample = 1 /\ online_sample = 1

\* C14: a tick whose call of cpu_up or cpu_down fails (the CPU stays as it
\* was) leaves online_sample and offline_sample as they were before the tick,
\* as a tick that attempted nothing would.
C14_ActivationFailure ==
    [][(/\ running' = running + 1
        /\ ~tk'.ok
        /\ tk'.ups \cup tk'.downs # {})
       => /\ online' = online
          /\ online_sample' = online_sample
          /\ offline_sample' = offline_sample]_vars

\* C15: the online count a tick indexes enable_load and disable_load with
\* lies in 1..available_cpus, on the first tick too.
C15_IndexValidity ==
    Ticked => (enable_load_read \cup disable_load_read) \subseteq 1..available_cpus

\* C16 as stated: a tick with all available_cpus CPUs online reads neither
\* enable_load nor disable_load at that count.
C16_Original ==
    (Ticked /\ tk.n = available_cpus) =>
        /\ tk.n \notin enable_load_read
        /\ tk.n \notin disable_load_read

\* C16 amended: a tick with all available_cpus CPUs online does not read
\* enable_load at that count and calls cpu_up for no CPU.
C16_NoLookupAtCapacity ==
    (Ticked /\ tk.n = available_cpus) =>
        /\ tk.n \notin enable_load_read
        /\ tk.ups = {}

\* A tick at full capacity, decided on the right count, with a burst load.
C16_Witness ==
    /\ Ticked
    /\ tk.n = available_cpus /\ tk.oc = available_cpus
    /\ tk.load >= enable_all_load
    /\ enable_load_read = {}
    /\ online = PossibleCpus

\* C17: a tick, the first one included, whose load meets none of the
\* scale-down, burst and incremental scale-up conditions for the real online
\* count leaves online_sample, offline_sample and the set of online CPUs as
\* they were.
C17_NoOpFrame ==
    [][(running' = running + 1) =>
          LET n == num_online_cpus(online)
              avg == tk'.load
              down == avg <= disable_load[n] /\ n > min_online_units
              burst == n < available_cpus /\ avg >= enable_all_load
          IN  (~down /\ ~burst /\ ~Qualifies(n, load_multiplier, avg))
              => UNCHANGED <<online, online_sample, offline_sample>>]_vars

\* C18: where a tick ends, online_cpus is the number of CPUs online after the
\* tick's action, sampling_rate becomes sample_rate of that number times the
\* load_multiplier read there, and the next run is queued with it.
C18_AdaptiveInterval ==
    [][(running' = running - 1) =>
          /\ online_cpus' = num_online_cpus(online)
          /\ sampling_rate' = sample_rate[num_online_cpus(online)] * load_multiplier
          /\ pending = 0 /\ pending' = 1]_vars

\* A tick decided on one online CPU, brought a second one online and ended
\* while the multiplier was load_multiplier_suspended: the interval is that
\* of two CPUs, doubled.
C18_Witness ==
    /\ running = 0 /\ pending = 1
    /\ tk.branch = "inc" /\ tk.commit /\ tk.ok
    /\ tk.n = 1 /\ tk.oc = 1
    /\ online_cpus = 2
    /\ sampling_rate = sample_rate[2] * load_multiplier_suspended
    /\ sampling_rate # sample_rate[1] * load_multiplier_suspended

\* C19: a tick that calls cpu_down calls it for one CPU, which was online and
\* is not CPU 0, and whose load as get_cpu_load returned it is the least
\* among the online CPUs other than 0, the lowest index among equals; no
\* tick calls cpu_down for a CPU that is offline or does not exist.
C19_LoadAwareVictim ==
    /\ tk.downs \subseteq (tk.pre \cap PossibleCpus) \ {0}
    /\ (tk.branch = "down" /\ tk.commit) =>
          \E v \in tk.pre \ {0} :
             /\ tk.downs = {v}
             /\ \A d \in tk.pre \ {0} :
                   tk.cl[v] < tk.cl[d] \/ (tk.cl[v] = tk.cl[d] /\ v <= d)

\* With all four CPUs online, CPU 3 was the idlest and went offline.
C19_Witness ==
    /\ tk.branch = "down" /\ tk.commit /\ tk.ok
    /\ tk.pre = PossibleCpus
    /\ tk.cl[1] = 1 /\ tk.cl[2] = 1 /\ tk.cl[3] = 0
    /\ tk.downs = {3}
    /\ online = {0, 1, 2}

\* C21: a tick that commits the incremental scale-up calls cpu_up for exactly
\* one CPU, the lowest-indexed of the CPUs that were offline, and cpu_down
\* for none; that CPU is online afterwards when cpu_up succeeds, and no other
\* CPU changes state.
C21_IncrementalCandidate ==
    (tk.branch = "inc" /\ tk.commit) =>
        \E v \in PossibleCpus \ tk.pre :
           /\ tk.ups = {v}
           /\ \A d \in PossibleCpus \ tk.pre : v <= d
           /\ tk.downs = {}
           /\ online = IF tk.ok THEN tk.pre \cup {v} ELSE tk.pre

\* CPUs 0 and 2 were online; the tick brought CPU 1 online, not CPU 3.
C21_Witness ==
    /\ tk.branch = "inc" /\ tk.commit /\ tk.ok
    /\ tk.pre = {0, 2}
    /\ tk.ups = {1}
    /\ online = {0, 1, 2}

\* C25 Hysteresis counter bounds: in every reachable state the scale-up
\* streak is within 1..online_sampling_periods and the scale-down streak
\* within 1..offline_sampling_periods.
C25_HysteresisBounds ==
    /\ 1 <= online_sample /\ online_sample <= online_sampling_periods
    /\ 1 <= offline_sample /\ offline_sample <= offline_sampling_periods

\* a scale-down tick that finds the streak at its maximum and, the io wait
\* not being 0, leaves it there
C25_Witness ==
    /\ tk.branch = "down" /\ ~tk.commit /\ tk.io # 0
    /\ offline_sample = offline_sampling_periods
    /\ online_sample = 1

\* C26 Per-tick multiplier consistency: a tick that computed the enable
\* threshold (line 239) computes the next sampling interval (line 204) with
\* the same value of load_multiplier, whatever steps of the suspend and
\* resume work items fall in between.
C26_MultiplierConsistency ==
    [][(running' = running - 1 /\ tk.load_enable # -1) =>
          \E m \in {1, load_multiplier_suspended} :
             /\ tk.load_enable = enable_threshold(tk.oc, m)
             /\ sampling_rate' = update_sampling_rate(online_cpus', m)]_vars

----------------------------------------------------------------------------
(* Claims about get_cpu_load (specification SpecLoad) *)

\* C22 Per-unit load baseline: the first call of get_cpu_load for a CPU
\* returns 0 whatever the counters read; a non-zero load is returned only
\* from the second call for that CPU on.
C22_LoadBaseline ==
    ld.nth = 1 => ld.ret = 0

\* C23 Per-unit utilization arithmetic: for two successive readings of the
\* counters of a CPU, get_cpu_load returns 0 when the wall time has not
\* advanced or has advanced by less than the idle time, and otherwise the
\* busy percentage of the true advances scaled by cur / max; the result is
\* within 0..100.
C23_UtilizationArithmetic ==
    ld.nth >= 2 =>
        LET dw == ld.wall_delta
            di == ld.idle_delta
        IN  /\ ld.ret = IF dw = 0 \/ dw < di
                        THEN 0
                        ELSE (((100 * (dw - di)) \div dw) * ld.policy.cur) \div ld.policy.max
            /\ ld.ret >= 0
            /\ ld.ret <= 100

----------------------------------------------------------------------------
(* Claims, auto_hotplug.c (specification SpecC) *)

\* C24 Ring-buffer smoothing: whatever the index, the averaged load of a
\* tick is the sum of all SAMPLING_PERIODS entries of the history, each
\* counted once, divided by SAMPLING_PERIODS; the index stays within
\* 0..SAMPLING_PERIODS-1.
C24_RingBufferSmoothing ==
    /\ index \in 0..(SAMPLING_PERIODS - 1)
    /\ tk.n # 0 =>
          tk.load = (history[0] + history[1] + history[2] + history[3] + history[4]
                     + history[5] + history[6] + history[7] + history[8] + history[9])
                    \div SAMPLING_PERIODS

----------------------------------------------------------------------------
(* Claims, variant B (specification SpecB) *)

\* C7: from one CPU online and both streaks 1, three consecutive ticks with
\* load 250 activate one CPU on the third (two online, online_sample = 1)
\* and none before; then five consecutive ticks with load 50 deactivate the
\* CPU other than 0 on the fifth (CPU 0 alone online) and none before.
C7_ConcreteScenario ==
    /\ obs.scen \in 1..(online_sampling_periodsB - 1) =>
          (online = {0} /\ tk.ups = {} /\ tk.downs = {})
    /\ obs.scen = online_sampling_periodsB =>
          /\ tk.n = 1
          /\ Cardinality(tk.ups) = 1 /\ tk.downs = {}
          /\ online = {0} \cup tk.ups
          /\ num_online_cpus(online) = 2
          /\ online_sample = 1
    /\ obs.scen \in (online_sampling_periodsB + 1)..(ScenLen - 1) =>
          (num_online_cpus(online) = 2 /\ tk.ups = {} /\ tk.downs = {})
    /\ obs.scen = ScenLen =>
          /\ tk.n = 2
          /\ tk.ups = {}
          /\ tk.downs = tk.pre \ {0}
          /\ online = {0}

\* The scenario ran to its end.
C7_Witness ==
    /\ obs.scen = ScenLen
    /\ tk.load = 50 /\ tk.branch = "down" /\ tk.commit
    /\ online = {0}

\* C20 as stated: a tick of variant B that calls cpu_down calls it for the
\* highest-indexed online CPU other than 0.
C20_Original ==
    (tk.branch = "down" /\ tk.commit) =>
        \E v \in tk.pre \ {0} :
           /\ tk.downs = {v}
           /\ \A d \in tk.pre \ {0} : d <= v

\* C20 amended: a tick of variant B that calls cpu_down calls it for one CPU,
\* the lowest-indexed online CPU other than 0.
C20_FixedIndexVictim ==
    (tk.branch = "down" /\ tk.commit) =>
        \E v \in tk.pre \ {0} :
           /\ tk.downs = {v}
           /\ \A d \in tk.pre \ {0} : v <= d

\* With all four CPUs online, CPU 1 went offline and CPUs 2 and 3 stayed.
C20_Witness ==
    /\ tk.branch = "down" /\ tk.commit /\ tk.ok
    /\ tk.pre = PossibleCpus
    /\ tk.downs = {1}
    /\ online = {0, 2, 3}

====
